---- MODULE Spec2Model ----
(***************************************************************************)
(* Durak (two players: the human and the computer).  The model follows     *)
(* src/src/card.rs (cards, deck, hands, table), src/src/ai.rs (the         *)
(* computer's policy), src/src/game.rs (the engine) and the input loop of  *)
(* src/src/ui.rs.                                                          *)
(*                                                                         *)
(* Vec<Card> is a sequence; Option<Card> is a sequence of length 0 (None)  *)
(* or 1 (Some); a table slot (Card, Option<Card>) is a pair.  A panic      *)
(* (failing assert!/expect/index) ends the process: the variable panic     *)
(* records its message and no further step is taken.                       *)
(*                                                                         *)
(* Spec is the game under the input loop.  FnSpec applies                  *)
(* Hand::acceptable_moves to hands, tables and trump suits drawn from      *)
(* bounded sets (at most MaxFnTable slots, at most MaxFnTotal hand cards    *)
(* and slots together) and BeatsSpec applies Card::beats to every pair of  *)
(* cards; moves holds the value returned (None before the call).           *)
(***************************************************************************)
EXTENDS Integers, Sequences, FiniteSets

VARIABLES deck, trump, discard, player, computer, players_turn, table,
          response, panic, moves

vars == <<deck, trump, discard, player, computer, players_turn, table,
          response, panic, moves>>

(***************************************************************************)
(* Sizes.  The source plays 4 suits x 9 values with hands of 6; the model  *)
(* keeps the 4 suits and plays the lowest NumValues values with hands (and *)
(* a table) of HAND_SIZE, over NumShuffles shuffles of the deck.           *)
(***************************************************************************)
NumSuits == 4
NumValues == 3
HAND_SIZE == 3
NumShuffles == 3
MaxFnTotal == 4
MaxFnTable == 2
MaxKey == 15

Suits == 0 .. (NumSuits - 1)
Six == 6
Values == Six .. (Six + NumValues - 1)
Cards == [suit : Suits, value : Values]
DECK_SIZE == NumSuits * NumValues

None == <<>>
Some(x) == <<x>>

NoPanic == "none"

(***************************************************************************)
(* Card                                                                    *)
(***************************************************************************)
\* mutant of beats: a card of equal value in the same suit suffices
beats_or_equals(self, other, t) ==
    IF self.suit = other.suit
    THEN self.value >= other.value
    ELSE self.suit = t

beats(self, other, t) ==
    IF self.suit = other.suit
    THEN self.value > other.value
    ELSE self.suit = t

\* Ordering: -1 Less, 0 Equal, 1 Greater
cmp(a, b) == IF a < b THEN -1 ELSE IF a = b THEN 0 ELSE 1

\* mutant of compare: the trump suit is given no precedence
compare_by_value(self, other, t) == cmp(self.value, other.value)

compare(self, other, t) ==
    IF self.suit = other.suit THEN cmp(self.value, other.value)
    ELSE IF self.suit = t THEN 1
    ELSE IF other.suit = t THEN -1
    ELSE cmp(self.value, other.value)

\* #[derive(Ord)] on Card: by suit, then by value
CardLess(a, b) ==
    \/ a.suit < b.suit
    \/ a.suit = b.suit /\ a.value < b.value

(***************************************************************************)
(* Sorting                                                                 *)
(***************************************************************************)
RemoveAt(s, i) == SubSeq(s, 1, i - 1) \o SubSeq(s, i + 1, Len(s))

RECURSIVE Insert(_, _)
Insert(s, c) ==
    IF s = <<>> THEN <<c>>
    ELSE IF CardLess(c, Head(s)) THEN <<c>> \o s
    ELSE <<Head(s)>> \o Insert(Tail(s), c)

\* cards.sort_unstable() under the derived order, which is total: equal
\* elements are identical, so the result is unique.
RECURSIVE sort_unstable(_)
sort_unstable(s) ==
    IF s = <<>> THEN <<>>
    ELSE Insert(sort_unstable(SubSeq(s, 1, Len(s) - 1)), s[Len(s)])

\* result.sort_unstable_by(|c1, c2| c1.compare(c2, trump)): compare is a
\* total preorder (two non-trump cards of one value and different suits are
\* Equal) and an unstable sort leaves the order of equal elements open, so
\* the outcomes are all arrangements that are non-decreasing under compare.
RECURSIVE sort_unstable_by(_, _)
sort_unstable_by(s, t) ==
    IF s = <<>> THEN {<<>>}
    ELSE LET least == {i \in 1 .. Len(s) :
                         \A j \in 1 .. Len(s) : compare(s[i], s[j], t) # 1}
         IN UNION {{<<s[i]>> \o r : r \in sort_unstable_by(RemoveAt(s, i), t)} :
                     i \in least}

Contains(s, x) == \E i \in 1 .. Len(s) : s[i] = x

(***************************************************************************)
(* Deck                                                                    *)
(***************************************************************************)
new_sorted ==
    [i \in 1 .. DECK_SIZE |->
        [suit |-> (i - 1) \div NumValues, value |-> Six + ((i - 1) % NumValues)]]

\* rng.shuffle: the model deals from a family of permutations of the sorted
\* deck, position i taking the card at stride * i + offset (mod DECK_SIZE).
ShuffleParams == << <<7, 3>>, <<5, 2>>, <<5, 1>>, <<7, 1>>, <<11, 1>>, <<5, 0>>, <<1, 0>> >>

RECURSIVE Gcd(_, _)
Gcd(a, b) == IF b = 0 THEN a ELSE Gcd(b, a % b)

Shuffles ==
    {ShuffleParams[k] : k \in {n \in 1 .. Len(ShuffleParams) :
                                 /\ n <= NumShuffles
                                 /\ Gcd(ShuffleParams[n][1], DECK_SIZE) = 1}}

shuffle(p) ==
    [i \in 1 .. DECK_SIZE |-> new_sorted[((p[1] * (i - 1) + p[2]) % DECK_SIZE) + 1]]

trump_card(d) == IF d = <<>> THEN None ELSE Some(d[1])

(***************************************************************************)
(* Table                                                                   *)
(***************************************************************************)
is_full(tb) == Len(tb) >= HAND_SIZE

\* mutant of values: the values of the defending cards are left out
values_attack_only(tb) == {tb[i][1].value : i \in 1 .. Len(tb)}

values(tb) ==
    {tb[i][1].value : i \in 1 .. Len(tb)} \cup
    {tb[i][2][1].value : i \in {j \in 1 .. Len(tb) : tb[j][2] # None}}

\* table.cards.drain(..) pushing the attack card, then the defence card
RECURSIVE drain(_)
drain(tb) ==
    IF tb = <<>> THEN <<>>
    ELSE <<Head(tb)[1]>> \o Head(tb)[2] \o drain(Tail(tb))

(***************************************************************************)
(* Hand                                                                    *)
(***************************************************************************)
\* mutant of remove: the played card stays in the hand
remove_keeps(cards, card) == cards

remove(cards, card) == SelectSeq(cards, LAMBDA c : c # card)

\* mutant of draw_loop: cards are drawn from the front of the deck
RECURSIVE draw_loop_from_front(_, _)
draw_loop_from_front(cards, d) ==
    IF Len(cards) < HAND_SIZE /\ d # <<>>
    THEN draw_loop_from_front(Append(cards, d[1]), Tail(d))
    ELSE [cards |-> cards, deck |-> d]

RECURSIVE draw_loop(_, _)
draw_loop(cards, d) ==
    IF Len(cards) < HAND_SIZE /\ d # <<>>
    THEN draw_loop(Append(cards, d[Len(d)]), SubSeq(d, 1, Len(d) - 1))
    ELSE [cards |-> cards, deck |-> d]

draw_from(cards, d) ==
    LET r == draw_loop(cards, d)
    IN [cards |-> sort_unstable(r.cards), deck |-> r.deck]

\* mutant of take_from: an open attack card is dropped instead of taken
take_from_defended_only(cards, tb) ==
    [cards |-> sort_unstable(cards \o drain(SelectSeq(tb, LAMBDA slot : slot[2] # None))),
     table |-> <<>>]

take_from(cards, tb) ==
    [cards |-> sort_unstable(cards \o drain(tb)), table |-> <<>>]

attack_with(cards, card, tb) ==
    IF ~(Len(tb) < HAND_SIZE)
    THEN [panic |-> "assertion failed: table.cards.len() < HAND_SIZE",
          cards |-> cards, table |-> tb]
    ELSE [panic |-> NoPanic,
          cards |-> remove(cards, card),
          table |-> Append(tb, <<card, None>>)]

\* mutant of defend_with: the defending card is dropped and the slot stays open
defend_with_leaves_open(cards, card, tb) ==
    IF tb = <<>>
    THEN [panic |-> "Table is empty when defending", cards |-> cards, table |-> tb]
    ELSE [panic |-> NoPanic, cards |-> remove(cards, card), table |-> tb]

defend_with(cards, card, tb) ==
    IF tb = <<>>
    THEN [panic |-> "Table is empty when defending", cards |-> cards, table |-> tb]
    ELSE LET last == tb[Len(tb)]
             rest == SubSeq(tb, 1, Len(tb) - 1)
         IN IF last[2] # None
            THEN [panic |-> "assertion failed: last.1.is_none()",
                  cards |-> cards, table |-> rest]
            ELSE [panic |-> NoPanic,
                  cards |-> remove(cards, card),
                  table |-> Append(rest, <<last[1], Some(card)>>)]

\* mutant of candidates: the defence test is applied the wrong way round
candidates_beaten(cards, tb, t) ==
    IF tb # <<>>
    THEN LET last == tb[Len(tb)]
         IN IF last[2] # None
            THEN LET existing == values(tb)
                 IN SelectSeq(cards, LAMBDA c : c.value \in existing)
            ELSE SelectSeq(cards, LAMBDA c : beats(last[1], c, t))
    ELSE cards

\* the list before sorting (card.rs 144-158)
candidates(cards, tb, t) ==
    IF tb # <<>>
    THEN LET last == tb[Len(tb)]
         IN IF last[2] # None
            THEN LET existing == values(tb)
                 IN SelectSeq(cards, LAMBDA c : c.value \in existing)
            ELSE SelectSeq(cards, LAMBDA c : beats(c, last[1], t))
    ELSE cards

\* the set of lists the call can return (one per order of compare-equal cards)
acceptable_moves(cards, tb, t) == sort_unstable_by(candidates(cards, tb, t), t)

(***************************************************************************)
(* AI                                                                      *)
(***************************************************************************)
first(list) == IF list = <<>> THEN None ELSE Some(Head(list))

\* acceptable_moves(..).into_iter().next(), for each list the call can return
plan_attack_ai(g) == {first(m) : m \in acceptable_moves(g.computer, g.table, g.trump)}

plan_defense(g) == {first(m) : m \in acceptable_moves(g.computer, g.table, g.trump)}

(***************************************************************************)
(* Game.  g is the Game struct; an operation yields the set of its         *)
(* outcomes [g, response, panic].                                          *)
(***************************************************************************)
NoResponse == [kind |-> "None", card |-> None, winner |-> "None"]
Play(card) == [kind |-> "Play", card |-> Some(card), winner |-> "None"]
Take == [kind |-> "Take", card |-> None, winner |-> "None"]
EndTurn == [kind |-> "EndTurn", card |-> None, winner |-> "None"]
GameOver(w) == [kind |-> "GameOver", card |-> None, winner |-> w]

Ok(g, r) == [g |-> g, response |-> r, panic |-> NoPanic]
Fail(g, msg) == [g |-> g, response |-> NoResponse, panic |-> msg]

\* mutant of winner: two empty hands are not recognised as a tie
winner_no_tie(g) ==
    IF g.deck = <<>>
    THEN IF g.player = <<>>
         THEN (IF g.computer = <<>> THEN "None" ELSE "Player")
         ELSE IF g.computer = <<>> THEN "Computer"
         ELSE "None"
    ELSE "None"

\* mutant of winner: the deck is not consulted
winner_ignores_deck(g) ==
    IF g.player = <<>>
    THEN (IF g.computer = <<>> THEN "Tie" ELSE "Player")
    ELSE IF g.computer = <<>> THEN "Computer"
    ELSE "None"

\* mutant of winner: the side left holding cards is declared the winner
winner_swapped(g) ==
    IF g.deck = <<>>
    THEN IF g.player = <<>>
         THEN (IF g.computer = <<>> THEN "Tie" ELSE "Computer")
         ELSE IF g.computer = <<>> THEN "Player"
         ELSE "None"
    ELSE "None"

\* mutant of winner: only the computer's win is recognised
winner_computer_only(g) ==
    IF g.deck = <<>> /\ g.computer = <<>> /\ g.player # <<>>
    THEN "Computer"
    ELSE "None"

winner(g) ==
    IF g.deck = <<>>
    THEN IF g.player = <<>>
         THEN (IF g.computer = <<>> THEN "Tie" ELSE "Player")
         ELSE IF g.computer = <<>> THEN "Computer"
         ELSE "None"
    ELSE "None"

\* mutant of is_valid_move: the human's attack is not gated
is_valid_move_ungated(g, card) ==
    \E m \in acceptable_moves(g.player, g.table, g.trump) : Contains(m, card)

is_valid_move(g, card) ==
    IF g.players_turn /\ (is_full(g.table) \/ g.computer = <<>>)
    THEN FALSE
    ELSE \E m \in acceptable_moves(g.player, g.table, g.trump) : Contains(m, card)

\* mutant of discard_table: the table is copied to the pile and not cleared
discard_table_keeps_table(g) ==
    [g EXCEPT !.discard = g.discard \o drain(g.table)]

discard_table(g) ==
    [g EXCEPT !.discard = g.discard \o drain(g.table), !.table = <<>>]

\* mutant of start_attack: the computer passes instead of opening an attack
start_attack_passes(g) == {Ok(g, EndTurn)}

start_attack(g) ==
    {IF a = None
     THEN Fail(g, "Attack impossible on first move")
     ELSE LET r == attack_with(g.computer, a[1], g.table)
          IN IF r.panic # NoPanic
             THEN Fail(g, r.panic)
             ELSE Ok([g EXCEPT !.computer = r.cards, !.table = r.table], Play(a[1]))
     : a \in plan_attack_ai(g)}

\* both hands refill, the first hand named drawing first
\* mutant of draw_computer_then_player: the human refills first
draw_human_first(g) ==
    LET p == draw_from(g.player, g.deck)
        c == draw_from(g.computer, p.deck)
    IN [g EXCEPT !.player = p.cards, !.computer = c.cards, !.deck = c.deck]

\* mutant of draw_computer_then_player: the computer does not refill
draw_player_only(g) ==
    LET p == draw_from(g.player, g.deck)
    IN [g EXCEPT !.player = p.cards, !.deck = p.deck]

draw_computer_then_player(g) ==
    LET c == draw_from(g.computer, g.deck)
        p == draw_from(g.player, c.deck)
    IN [g EXCEPT !.computer = c.cards, !.player = p.cards, !.deck = p.deck]

\* mutant of draw_player_then_computer: the computer refills first
draw_computer_first(g) ==
    LET c == draw_from(g.computer, g.deck)
        p == draw_from(g.player, c.deck)
    IN [g EXCEPT !.computer = c.cards, !.player = p.cards, !.deck = p.deck]

draw_player_then_computer(g) ==
    LET p == draw_from(g.player, g.deck)
        c == draw_from(g.computer, p.deck)
    IN [g EXCEPT !.player = p.cards, !.computer = c.cards, !.deck = c.deck]

\* mutant of after_response: the reply is returned without the win check
after_response_unchecked(g, r) == Ok(g, r)

\* the check that closes defend (game.rs 146-150)
after_response(g, r) ==
    IF winner(g) # "None" THEN Ok(g, GameOver(winner(g))) ELSE Ok(g, r)

defend(g, attack) ==
    IF ~g.players_turn THEN {Fail(g, "assertion failed: self.players_turn")}
    ELSE IF is_full(g.table) THEN {Fail(g, "assertion failed: !self.table.is_full()")}
    ELSE LET a == attack_with(g.player, attack, g.table)
             g1 == [g EXCEPT !.player = a.cards, !.table = a.table]
         IN IF a.panic # NoPanic THEN {Fail(g, a.panic)}
            ELSE {IF d # None
                  THEN LET r == defend_with(g1.computer, d[1], g1.table)
                       IN IF r.panic # NoPanic THEN Fail(g1, r.panic)
                          ELSE after_response(
                                 [g1 EXCEPT !.computer = r.cards, !.table = r.table],
                                 Play(d[1]))
                  ELSE LET r == take_from(g1.computer, g1.table)
                           g2 == [g1 EXCEPT !.computer = r.cards, !.table = r.table]
                       IN after_response(draw_computer_then_player(g2), Take)
                  : d \in plan_defense(g1)}

switch_turn(g) ==
    IF ~g.players_turn THEN {Fail(g, "assertion failed: self.players_turn")}
    ELSE LET g1 == draw_player_then_computer(g)
         IN IF winner(g1) # "None" THEN {Ok(g1, GameOver(winner(g1)))}
            ELSE start_attack(discard_table([g1 EXCEPT !.players_turn = FALSE]))

plan_attack(g, last_defense) ==
    IF g.players_turn THEN {Fail(g, "assertion failed: !self.players_turn")}
    ELSE LET r == defend_with(g.player, last_defense, g.table)
             g1 == [g EXCEPT !.player = r.cards, !.table = r.table]
         IN IF r.panic # NoPanic THEN {Fail(g, r.panic)}
            ELSE IF is_full(g1.table)
            THEN LET g2 == draw_computer_then_player(g1)
                 IN IF winner(g2) # "None" THEN {Ok(g2, GameOver(winner(g2)))}
                    ELSE {Ok(discard_table([g2 EXCEPT !.players_turn = TRUE]), EndTurn)}
            ELSE IF winner(g1) # "None" THEN {Ok(g1, GameOver(winner(g1)))}
            ELSE {IF a # None
                  THEN LET k == attack_with(g1.computer, a[1], g1.table)
                       IN IF k.panic # NoPanic THEN Fail(g1, k.panic)
                          ELSE Ok([g1 EXCEPT !.computer = k.cards, !.table = k.table],
                                  Play(a[1]))
                  ELSE Ok(draw_computer_then_player(
                            discard_table([g1 EXCEPT !.players_turn = TRUE])),
                          EndTurn)
                  : a \in plan_attack_ai(g1)}

player_took_cards(g) ==
    IF g.players_turn THEN {Fail(g, "assertion failed: !self.players_turn")}
    ELSE LET r == take_from(g.player, g.table)
             c == draw_from(g.computer, g.deck)
             g1 == [g EXCEPT !.player = r.cards, !.table = r.table,
                             !.computer = c.cards, !.deck = c.deck]
         IN IF winner(g1) # "None" THEN {Ok(g1, GameOver(winner(g1)))}
            ELSE start_attack(g1)

\* action is <<"Play", card>> or <<"EndTurn">>
player_action(g, action) ==
    IF g.players_turn
    THEN (IF action[1] = "Play" THEN defend(g, action[2]) ELSE switch_turn(g))
    ELSE (IF action[1] = "Play" THEN plan_attack(g, action[2]) ELSE player_took_cards(g))

\* Game::new over one shuffle and one outcome of the coin
new(p, coin) ==
    LET d == shuffle(p)
        h1 == draw_from(<<>>, d)
        h2 == draw_from(<<>>, h1.deck)
    IN [deck |-> h2.deck, trump |-> d[1].suit, discard |-> <<>>,
        player |-> h1.cards, computer |-> h2.cards,
        players_turn |-> coin, table |-> <<>>]

start(g) == IF ~g.players_turn THEN start_attack(g) ELSE {Ok(g, NoResponse)}

(***************************************************************************)
(* Ui: the input loop                                                      *)
(***************************************************************************)
Game == [deck |-> deck, trump |-> trump, discard |-> discard, player |-> player,
         computer |-> computer, players_turn |-> players_turn, table |-> table]

\* the game after an outcome; a panic ends the process where it stood
Becomes(o) ==
    /\ panic' = o.panic
    /\ UNCHANGED moves
    /\ IF o.panic # NoPanic
       THEN UNCHANGED <<deck, trump, discard, player, computer, players_turn,
                        table, response>>
       ELSE /\ deck' = o.g.deck
            /\ trump' = o.g.trump
            /\ discard' = o.g.discard
            /\ player' = o.g.player
            /\ computer' = o.g.computer
            /\ players_turn' = o.g.players_turn
            /\ table' = o.g.table
            /\ response' = o.response

Init ==
    \E p \in Shuffles, coin \in BOOLEAN :
        \E o \in start(new(p, coin)) :
            /\ deck = o.g.deck
            /\ trump = o.g.trump
            /\ discard = o.g.discard
            /\ player = o.g.player
            /\ computer = o.g.computer
            /\ players_turn = o.g.players_turn
            /\ table = o.g.table
            /\ response = NoResponse
            /\ panic = o.panic
            /\ moves = None

process_end_turn ==
    /\ panic = NoPanic
    /\ IF players_turn
       THEN \E o \in player_action(Game, <<"EndTurn">>) : Becomes(o)
       ELSE UNCHANGED vars

process_take ==
    /\ panic = NoPanic
    /\ IF ~players_turn
       THEN \E o \in player_action(Game, <<"EndTurn">>) : Becomes(o)
       ELSE UNCHANGED vars

\* cards[index - 1] at index 0: the subtraction fails its overflow check, or,
\* in a build without overflow checks, wraps and the index is out of bounds
UiPanics == {"attempt to subtract with overflow", "index out of bounds"}

process_card(index) ==
    /\ panic = NoPanic
    /\ IF index <= Len(player)
       THEN IF index - 1 < 0
            THEN /\ panic' \in UiPanics
                 /\ UNCHANGED <<deck, trump, discard, player, computer,
                                players_turn, table, response, moves>>
            ELSE LET card == player[index]
                 IN IF is_valid_move(Game, card)
                    THEN \E o \in player_action(Game, <<"Play", card>>) : Becomes(o)
                    ELSE UNCHANGED vars
       ELSE UNCHANGED vars

Next ==
    \/ \E index \in 0 .. MaxKey : process_card(index)
    \/ process_end_turn
    \/ process_take

Spec == Init /\ [][Next]_vars

(***************************************************************************)
(* Hand::acceptable_moves on its own                                       *)
(***************************************************************************)
RECURSIVE SortedSeqOf(_)
SortedSeqOf(S) ==
    IF S = {} THEN <<>>
    ELSE LET c == CHOOSE x \in S : \A y \in S \ {x} : CardLess(x, y)
         IN <<c>> \o SortedSeqOf(S \ {c})

\* hands as the program keeps them: distinct cards in the derived order
FnHands == {SortedSeqOf(S) : S \in {T \in SUBSET Cards : Cardinality(T) <= MaxFnTotal}}

OpenSlots == {<<a, None>> : a \in Cards}
ClosedSlots(t) ==
    {<<x[1], Some(x[2])>> : x \in {y \in Cards \X Cards : beats(y[2], y[1], t)}}

SlotCards(slot) == {slot[1]} \cup {slot[2][i] : i \in 1 .. Len(slot[2])}

RECURSIVE ClosedTables(_, _)
ClosedTables(n, t) ==
    IF n = 0 THEN {<<>>}
    ELSE {Append(tb, slot) : tb \in ClosedTables(n - 1, t), slot \in ClosedSlots(t)}

\* tables of at most max slots: defended slots, then a last slot that is open
\* or defended; no card lies twice on a table
FnTables(t, max) ==
    {<<>>} \cup
    {tb \in UNION {{Append(h, slot) : h \in ClosedTables(n, t),
                                       slot \in OpenSlots \cup ClosedSlots(t)} :
                     n \in 0 .. (max - 1)} :
        \A i, j \in 1 .. Len(tb) : i # j => SlotCards(tb[i]) \cap SlotCards(tb[j]) = {}}

FnInit ==
    /\ trump \in Suits
    /\ player \in FnHands
    /\ table \in FnTables(trump, IF MaxFnTotal - Len(player) < MaxFnTable
                                   THEN MaxFnTotal - Len(player) ELSE MaxFnTable)
    /\ \A i \in 1 .. Len(table) : SlotCards(table[i]) \cap {player[k] : k \in 1 .. Len(player)} = {}
    /\ moves = None
    /\ deck = <<>>
    /\ discard = <<>>
    /\ computer = <<>>
    /\ players_turn = FALSE
    /\ response = NoResponse
    /\ panic = NoPanic

call_acceptable_moves ==
    /\ moves = None
    /\ \E m \in acceptable_moves(player, table, trump) : moves' = Some(m)
    /\ UNCHANGED <<deck, trump, discard, player, computer, players_turn, table,
                   response, panic>>

FnNext == call_acceptable_moves

FnSpec == FnInit /\ [][FnNext]_vars

(***************************************************************************)
(* Card::beats on its own: player holds the card self, computer the card   *)
(* other, moves the value returned                                         *)
(***************************************************************************)
BeatsInit ==
    /\ trump \in Suits
    /\ \E self \in Cards : player = <<self>>
    /\ \E other \in Cards : computer = <<other>>
    /\ moves = None
    /\ deck = <<>>
    /\ discard = <<>>
    /\ table = <<>>
    /\ players_turn = FALSE
    /\ response = NoResponse
    /\ panic = NoPanic

call_beats ==
    /\ moves = None
    /\ moves' = Some(beats(player[1], computer[1], trump))
    /\ UNCHANGED <<deck, trump, discard, player, computer, players_turn, table,
                   response, panic>>

BeatsNext == call_beats

BeatsSpec == BeatsInit /\ [][BeatsNext]_vars

(***************************************************************************)
(* Properties                                                              *)
(***************************************************************************)
SeqToSet(s) == {s[i] : i \in 1 .. Len(s)}
Distinct(s) == \A i, j \in 1 .. Len(s) : i # j => s[i] # s[j]

\* the cards lying on the table, attack and defence sides
OnTable(tb) ==
    {tb[i][1] : i \in 1 .. Len(tb)} \cup UNION {SeqToSet(tb[i][2]) : i \in 1 .. Len(tb)}
TableCount(tb) == Len(tb) + Cardinality({i \in 1 .. Len(tb) : tb[i][2] # None})
LastOpen(tb) == tb # <<>> /\ tb[Len(tb)][2] = None
LastDefended(tb) == tb # <<>> /\ tb[Len(tb)][2] # None
AllDefended(tb) == \A i \in 1 .. Len(tb) : tb[i][2] # None

GameNext == [deck |-> deck', trump |-> trump', discard |-> discard', player |-> player',
             computer |-> computer', players_turn |-> players_turn', table |-> table']

\* a card key that submits Play(card) through the gate, and the engine answers
PlaySubmitted ==
    /\ panic = NoPanic
    /\ panic' = NoPanic
    /\ \E index \in 1 .. MaxKey :
          /\ index <= Len(player)
          /\ is_valid_move(Game, player[index])
          /\ process_card(index)
EndTurnSubmitted == panic = NoPanic /\ panic' = NoPanic /\ (process_end_turn \/ process_take)

\* C1: in every reachable state the deck, the two hands, the table and the
\* discard pile partition the cards of the game: their sizes sum to the deck
\* size and no card occurs twice anywhere.
C1_CardsPartitioned ==
    /\ Len(deck) + Len(player) + Len(computer) + TableCount(table) + Len(discard)
         = DECK_SIZE
    /\ Distinct(deck) /\ Distinct(player) /\ Distinct(computer) /\ Distinct(discard)
    /\ Cardinality(SeqToSet(deck) \cup SeqToSet(player) \cup SeqToSet(computer)
                   \cup OnTable(table) \cup SeqToSet(discard)) = DECK_SIZE

C1_Witness ==
    /\ response.kind = "Play"
    /\ deck # <<>> /\ player # <<>> /\ computer # <<>>
    /\ Len(table) >= 2 /\ discard # <<>>

\* C2: no assert!/expect of the engine fails on a gated action (the claim; the
\* replies after a GameOver included).
C2_NoEnginePanic == panic \in {NoPanic} \cup UiPanics

\* C3: winner() is decided by the emptiness of the deck and of the two hands.
C3_WinnerByEmptiness ==
    /\ deck # <<>> => winner(Game) = "None"
    /\ deck = <<>> /\ player = <<>> /\ computer = <<>> => winner(Game) = "Tie"
    /\ deck = <<>> /\ player = <<>> /\ computer # <<>> => winner(Game) = "Player"
    /\ deck = <<>> /\ player # <<>> /\ computer = <<>> => winner(Game) = "Computer"
    /\ deck = <<>> /\ player # <<>> /\ computer # <<>> => winner(Game) = "None"

C3_Witness ==
    /\ deck # <<>> /\ player = <<>> /\ computer # <<>>
    /\ response.kind = "Play"

\* C4 as claimed: empty deck, empty human hand, non-empty computer hand give
\* winner() = Computer.
C4_Claimed ==
    deck = <<>> /\ player = <<>> /\ computer # <<>> => winner(Game) = "Computer"

\* C4 amended: empty deck, empty human hand, non-empty computer hand give
\* winner() = Player.
C4_HumanOutFirstWins ==
    deck = <<>> /\ player = <<>> /\ computer # <<>> => winner(Game) = "Player"

C4_Witness ==
    /\ deck = <<>> /\ player = <<>> /\ computer # <<>>
    /\ response = GameOver("Player")

\* C6: the table holds at most HAND_SIZE slots and only its last slot may be
\* an open attack.
C6_TableShape ==
    /\ Len(table) <= HAND_SIZE
    /\ \A i \in 1 .. Len(table) - 1 : table[i][2] # None

C6_Witness ==
    /\ Len(table) = HAND_SIZE
    /\ LastOpen(table)
    /\ response.kind = "Play"

\* the actions the gate lets through: EndTurn at any time, Play of a held card
\* that is_valid_move accepts
GatedActions(g) ==
    {<<"EndTurn">>} \cup {<<"Play", c>> : c \in {x \in SeqToSet(g.player) : is_valid_move(g, x)}}

\* a measure of the game left: cards not yet discarded, then the phase (the
\* human's attack comes before the computer's within one size of the discard
\* pile), then the cards the attacker can still bring
Rank(g) ==
    (DECK_SIZE - Len(g.discard)) * (2 * DECK_SIZE + 2)
    + (IF g.players_turn
       THEN DECK_SIZE + 1 + Len(g.player) + Len(g.deck)
       ELSE Len(g.computer) + Len(g.deck))

\* C5: the game runs to completion: every gated action that does not return
\* GameOver strictly lowers a natural-valued measure of the game (so no cycle
\* of such actions exists and GameOver is returned after at most Rank actions),
\* and no action fails before a GameOver has been returned.
C5_GameRunsToCompletion ==
    panic = NoPanic =>
        \A act \in GatedActions(Game) :
            \A o \in player_action(Game, act) :
                /\ o.panic = NoPanic /\ o.response.kind # "GameOver" =>
                      /\ Rank(o.g) < Rank(Game)
                      /\ Rank(o.g) >= 0
                /\ o.panic # NoPanic => response.kind = "GameOver"

C5_Witness == response.kind = "GameOver" /\ deck = <<>> /\ discard # <<>>

\* the human's card at key index closes the last slot of a table that is then full
ClosesFullTable(index) ==
    /\ panic = NoPanic /\ panic' = NoPanic
    /\ ~players_turn
    /\ Len(table) = HAND_SIZE /\ LastOpen(table)
    /\ index <= Len(player)
    /\ is_valid_move(Game, player[index])
    /\ process_card(index)

ClosedTable(card) ==
    Append(SubSeq(table, 1, Len(table) - 1), <<table[Len(table)][1], Some(card)>>)

\* the computer refills from the deck, then the human (less the card played)
BothDrew(card) ==
    LET c == draw_from(computer, deck)
        p == draw_from(remove(player, card), c.deck)
    IN computer' = c.cards /\ player' = p.cards /\ deck' = p.deck

TurnFlipsToHuman(card) ==
    /\ players_turn'
    /\ table' = <<>>
    /\ discard' = discard \o drain(ClosedTable(card))
    /\ response' = EndTurn

\* C7 as claimed: the defence that fills the table always draws for both hands
\* (computer first), hands the turn to the human and discards the table.
C7_Claimed ==
    [][\A index \in 1 .. MaxKey :
          ClosesFullTable(index) =>
              BothDrew(player[index]) /\ TurnFlipsToHuman(player[index])]_vars

\* C7 amended: the defence that fills the table always draws for both hands
\* (computer first); the turn passes to the human and the table is discarded
\* when the state after the draws has no winner, otherwise the reply is
\* GameOver and the turn and the full table stay as they are.
C7_FullTableDrawsThenFlipsUnlessWon ==
    [][\A index \in 1 .. MaxKey :
          ClosesFullTable(index) =>
              /\ BothDrew(player[index])
              /\ IF winner(GameNext) = "None"
                 THEN TurnFlipsToHuman(player[index])
                 ELSE /\ response' = GameOver(winner(GameNext))
                      /\ ~players_turn'
                      /\ table' = ClosedTable(player[index])
                      /\ discard' = discard]_vars

C7_Witness ==
    /\ ~players_turn
    /\ Len(table) = HAND_SIZE /\ AllDefended(table)
    /\ response.kind = "GameOver"

\* C8: on the human's attack the reply is GameOver(w) exactly when winner() is
\* Some(w) after the computer's answer; with an empty deck the human's last
\* card answered by the computer's last card gives Tie, answered by another
\* card or by a take gives Player.
C8_AttackWinCheckAfterAnswer ==
    [][players_turn /\ PlaySubmitted =>
          /\ response'.kind = "GameOver" <=> winner(GameNext) # "None"
          /\ response'.kind = "GameOver" => response'.winner = winner(GameNext)
          /\ response'.kind # "GameOver" => response'.kind \in {"Play", "Take"}
          /\ deck = <<>> /\ Len(player) = 1 =>
                IF Len(computer) = 1 /\ table' # <<>>
                THEN response' = GameOver("Tie") /\ computer' = <<>>
                ELSE response' = GameOver("Player") /\ computer' # <<>>]_vars

C8_Witness ==
    /\ players_turn
    /\ response = GameOver("Tie")
    /\ LastDefended(table)

\* C9: against an open last slot acceptable_moves returns exactly the held
\* cards that beat the open attack card, each once, and the empty list when
\* no held card beats it.
C9_DefenceMovesExact ==
    moves # None /\ LastOpen(table) =>
        LET m == moves[1]
            covering == {c \in SeqToSet(player) : beats(c, table[Len(table)][1], trump)}
        IN /\ SeqToSet(m) = covering
           /\ Distinct(m)
           /\ covering = {} => m = <<>>

C9_Witness ==
    /\ moves # None
    /\ Len(table) = 2 /\ LastOpen(table)
    /\ Len(moves[1]) = 1 /\ Len(player) = 2

\* the values lying on the table, on either side of any slot
RanksOnTable(tb) == {c.value : c \in OnTable(tb)}

\* on a non-empty table whose last slot is defended, every list that
\* acceptable_moves can return for the hand holds exactly the hand's cards
\* whose value lies on the table
FollowUpMovesExact(hand, tb, t) ==
    LastDefended(tb) =>
        \A m \in acceptable_moves(hand, tb, t) :
            /\ SeqToSet(m) = {c \in SeqToSet(hand) : c.value \in RanksOnTable(tb)}
            /\ Distinct(m)

\* C10: for either hand and the table of any reachable state with a defended
\* last slot, acceptable_moves returns exactly the held cards whose value is
\* on the table; and on every reachable table each attack card after the first
\* slot has a value that lies in an earlier slot.
C10_FollowUpByRanksOnTable ==
    /\ FollowUpMovesExact(player, table, trump)
    /\ FollowUpMovesExact(computer, table, trump)
    /\ \A i \in 2 .. Len(table) :
          table[i][1].value \in RanksOnTable(SubSeq(table, 1, i - 1))

C10_Witness ==
    /\ Len(table) >= 2 /\ LastDefended(table)
    /\ response.kind = "Play"
    /\ \E c \in SeqToSet(player) : c.value \in RanksOnTable(table)
    /\ \E c \in SeqToSet(player) : c.value \notin RanksOnTable(table)

\* the same exactness for every hand and table of FnSpec
FnFollowUpMovesExact ==
    /\ FollowUpMovesExact(player, table, trump)
    /\ moves # None /\ LastDefended(table) =>
          SeqToSet(moves[1]) = {c \in SeqToSet(player) : c.value \in RanksOnTable(table)}

\* C11: on an empty table acceptable_moves returns exactly the cards of the
\* hand, each once, non-decreasing under compare: a trump card is followed by
\* trump cards only, non-trump cards come in non-decreasing value and trump
\* cards in increasing value.
C11_OpeningMovesSorted ==
    moves # None /\ table = <<>> =>
        LET m == moves[1]
        IN /\ SeqToSet(m) = SeqToSet(player)
           /\ Len(m) = Len(player)
           /\ \A i, j \in 1 .. Len(m) :
                 i < j =>
                    /\ compare(m[i], m[j], trump) # 1
                    /\ m[i].suit = trump => m[j].suit = trump
                    /\ m[i].suit # trump /\ m[j].suit # trump => m[i].value <= m[j].value
                    /\ m[i].suit = trump /\ m[j].suit = trump => m[i].value < m[j].value

C11_Witness ==
    /\ moves # None /\ table = <<>> /\ Len(player) = MaxFnTotal
    /\ moves[1] # player
    /\ \E i, j \in 1 .. Len(player) :
          /\ player[i].suit = trump /\ player[j].suit # trump
          /\ \E k \in 1 .. Len(player) :
                k # j /\ player[k].suit \notin {trump, player[j].suit}
                      /\ player[k].value = player[j].value

\* the human's attack is closed: the table is full or the computer holds nothing
AttackClosed == players_turn /\ (Len(table) >= HAND_SIZE \/ computer = <<>>)

\* C12: is_valid_move(card) is false on the human's turn when the table is
\* full or the computer's hand is empty; in every other state it is true
\* exactly when card is in the list acceptable_moves returns for the human's
\* hand, the table and the trump suit (whichever order the sort leaves it in).
C12_GateIsMembershipUnlessClosed ==
    LET lists == acceptable_moves(player, table, trump)
        allowed == {card \in Cards : is_valid_move(Game, card)}
    IN /\ AttackClosed => allowed = {}
       /\ ~AttackClosed =>
             /\ \A m \in lists : allowed = SeqToSet(m)
             /\ allowed =
                   {card \in SeqToSet(player) :
                      /\ LastOpen(table) => beats(card, table[Len(table)][1], trump)
                      /\ LastDefended(table) => card.value \in RanksOnTable(table)}

C12_Witness ==
    /\ AttackClosed
    /\ response.kind = "Play"
    /\ \E card \in SeqToSet(player) : card.value \in RanksOnTable(table)

\* C13: beats(a, b, trump) is true exactly when a and b share a suit and a's
\* value is higher, or a is of the trump suit and b is not; so no card beats
\* itself, beats is asymmetric, a trump card beats every non-trump card and
\* two non-trump cards of different suits do not beat each other.
C13_BeatsBySuitAndValue ==
    moves # None =>
        LET a == player[1]
            b == computer[1]
            r == moves[1]
        IN /\ r <=> \/ a.suit = b.suit /\ a.value > b.value
                    \/ a.suit = trump /\ b.suit # trump
           /\ a = b => ~r
           /\ r => ~beats(b, a, trump)
           /\ a.suit = trump /\ b.suit # trump => r
           /\ a.suit # trump /\ b.suit # trump /\ a.suit # b.suit => ~r

C13_Witness ==
    /\ moves = Some(FALSE)
    /\ player = computer
    /\ player[1].suit = trump

\* the human attacks with the card at key index and the computer holds no card
\* that beats it
AttackNotCovered(index) ==
    /\ panic = NoPanic
    /\ players_turn
    /\ index <= Len(player)
    /\ is_valid_move(Game, player[index])
    /\ \A c \in SeqToSet(computer) : ~beats(c, player[index], trump)
    /\ process_card(index)

\* C14: when the human attacks and the computer holds no card that beats the
\* attack card, the computer takes: the table is empty afterwards, every card
\* that lay on the table and the attack card are in the computer's hand, the
\* discard pile is unchanged, it is still the human's turn, both hands hold at
\* least HAND_SIZE cards unless the deck is empty, and the response is Take
\* unless the resulting state has a winner.
C14_ComputerTakesUncoveredAttack ==
    [][\A index \in 1 .. MaxKey :
          AttackNotCovered(index) =>
              /\ panic' = NoPanic
              /\ table' = <<>>
              /\ OnTable(table) \cup {player[index]} \subseteq SeqToSet(computer')
              /\ SeqToSet(computer) \subseteq SeqToSet(computer')
              /\ discard' = discard
              /\ players_turn'
              /\ deck' = <<>> \/ (Len(player') >= HAND_SIZE /\ Len(computer') >= HAND_SIZE)
              /\ response' = IF winner(GameNext) = "None" THEN Take
                             ELSE GameOver(winner(GameNext))]_vars

C14_Witness ==
    /\ players_turn
    /\ response = Take
    /\ table = <<>>
    /\ Len(computer) >= HAND_SIZE + 2
    /\ deck # <<>>

\* C15: the trump suit is the suit of the first card of the shuffled deck and
\* never changes; the deck only loses cards from its end, so that first card
\* stays first until it is the last card drawn, and trump_card() is that card
\* while the deck is non-empty and None exactly when the deck is empty.
C15_TrumpCardStaysFirst ==
    /\ [](\E p \in Shuffles :
            LET d == shuffle(p)
            IN /\ trump = d[1].suit
               /\ deck = SubSeq(d, 1, Len(deck))
               /\ trump_card(deck) = IF deck = <<>> THEN None ELSE Some(d[1]))
    /\ [][/\ trump' = trump
          /\ Len(deck') <= Len(deck)
          /\ deck' = SubSeq(deck, 1, Len(deck'))
          /\ deck' # <<>> => trump_card(deck') = trump_card(deck)]_vars

C15_Witness ==
    /\ Len(deck) = 1
    /\ trump_card(deck) # None
    /\ trump_card(deck)[1].suit = trump
    /\ discard # <<>>

\* C16: for every card key 0 .. MaxKey, process_card never fails; it submits
\* Play of the card at position index of the human's hand when the gate
\* accepts that card and otherwise leaves the state unchanged.
C16_IllegalInputIgnored ==
    [][\A index \in 0 .. MaxKey :
          process_card(index) =>
              /\ panic' = NoPanic
              /\ IF 1 <= index /\ index <= Len(player) /\ is_valid_move(Game, player[index])
                 THEN \E o \in player_action(Game, <<"Play", player[index]>>) : Becomes(o)
                 ELSE UNCHANGED vars]_vars

\* the computer has just opened an attack: one open slot holding the card of
\* the reply, with the human to defend
Opened(tb, r, turn) ==
    /\ Len(tb) = 1
    /\ LastOpen(tb)
    /\ r = Play(tb[1][1])
    /\ ~turn

\* C17: every opening attack of the computer succeeds. When the computer
\* goes first the game starts with its card as the single open slot; an
\* EndTurn of the human (ending the human's attack, or taking the table)
\* never fails and, unless it returns GameOver, returns Play(card) with that
\* card, taken from the computer's refilled hand, as the single open slot.
C17_OpeningAttackSucceeds ==
    /\ panic = NoPanic
    /\ ~players_turn =>
          /\ Len(table) = 1 /\ LastOpen(table)
          /\ Len(computer) = HAND_SIZE - 1
          /\ table[1][1] \notin SeqToSet(computer)
    /\ [][panic = NoPanic /\ (process_end_turn \/ process_take) =>
             /\ panic' = NoPanic
             /\ \/ response'.kind = "GameOver" /\ winner(GameNext) # "None"
                \/ /\ Opened(table', response', players_turn')
                   /\ table'[1][1] \in SeqToSet(computer) \cup SeqToSet(deck)
                   /\ table'[1][1] \notin SeqToSet(computer')
                   /\ SeqToSet(computer') \subseteq SeqToSet(computer) \cup SeqToSet(deck)]_vars

C17_Witness ==
    /\ Opened(table, response, players_turn)
    /\ discard # <<>>
    /\ computer = <<>>
    /\ deck = <<>>

\* the human ends an attack series with EndTurn
HumanSeriesEnds ==
    /\ panic = NoPanic /\ panic' = NoPanic
    /\ players_turn
    /\ process_end_turn

\* the human's card at key index ends the computer's series: it fills the
\* table, or the computer has no further attack and yields
ComputerSeriesEnds(index) ==
    /\ panic = NoPanic /\ panic' = NoPanic
    /\ ~players_turn
    /\ index <= Len(player)
    /\ response'.kind = "EndTurn" \/ Len(table) = HAND_SIZE
    /\ is_valid_move(Game, player[index])
    /\ process_card(index)

\* C18: at a turn boundary the attacker of the finished series refills
\* first. On the human's EndTurn the human draws up to HAND_SIZE cards (or
\* until the deck is empty) and the computer draws from what is left, before
\* it attacks; when the computer's series ends the computer draws first and
\* the human (less the card just played) from what is left. So the defender
\* gains cards only if the attacker holds at least HAND_SIZE cards.
C18_AttackerRefillsFirst ==
    [][/\ HumanSeriesEnds =>
             LET p == draw_from(player, deck)
                 c == draw_from(computer, p.deck)
             IN /\ player' = p.cards
                /\ deck' = c.deck
                /\ SeqToSet(computer') \subseteq SeqToSet(c.cards)
                /\ Len(computer') >= Len(c.cards) - 1
                /\ Len(p.cards) >= HAND_SIZE \/ p.deck = <<>>
                /\ Len(c.cards) > Len(computer) => Len(player') >= HAND_SIZE
       /\ \A index \in 1 .. MaxKey :
             ComputerSeriesEnds(index) =>
                 /\ BothDrew(player[index])
                 /\ Len(computer') >= HAND_SIZE \/ deck' = <<>>
                 /\ Len(player') > Len(player) - 1 => Len(computer') >= HAND_SIZE]_vars

C18_Witness ==
    /\ players_turn
    /\ response = EndTurn
    /\ table = <<>>
    /\ deck = <<>>
    /\ Len(computer) = HAND_SIZE
    /\ Len(player) < HAND_SIZE

\* C19: GameOver is absorbing: after a GameOver(w) reply every later action
\* that the input loop submits is answered by GameOver(w) again, without
\* failing, and winner() stays Some(w).
C19_GameOverAbsorbing ==
    [][response.kind = "GameOver" /\ panic' \notin UiPanics =>
          /\ panic' = NoPanic
          /\ response' = response
          /\ winner(GameNext) = response.winner]_vars

\* C20: the reply and winner() agree: after every player_action the reply is
\* GameOver(w) exactly when winner() is Some(w) in the resulting state; a
\* reply of Play, Take or EndTurn leaves winner() at None.
C20_ResponseAgreesWithWinner ==
    response # NoResponse /\ panic = NoPanic =>
        /\ response.kind = "GameOver" <=> winner(Game) # "None"
        /\ response.kind = "GameOver" => response.winner = winner(Game)

\* C21: the phase can be read from players_turn and the table: in every
\* state where winner() is None, on the human's turn every slot of the table
\* is defended (the table may be empty), and on the computer's turn the
\* table is not empty and its last slot is an open attack, whose card the
\* step that led there took from the computer's hand (after its refill).
C21_PhaseFromTurnAndTable ==
    /\ [](panic = NoPanic /\ winner(Game) = "None" =>
             IF players_turn
             THEN AllDefended(table)
             ELSE LastOpen(table))
    /\ [][panic' = NoPanic /\ winner(GameNext) = "None" /\ ~players_turn' =>
             /\ LastOpen(table')
             /\ table'[Len(table')][1] \in SeqToSet(computer) \cup SeqToSet(deck)
             /\ table'[Len(table')][1] \notin SeqToSet(player)]_vars

C21_Witness ==
    /\ winner(Game) = "None"
    /\ ~players_turn
    /\ Len(table) = HAND_SIZE
    /\ LastOpen(table)
    /\ deck = <<>>

\* the human attacks with the card at key index
HumanAttacks(index) ==
    /\ panic = NoPanic
    /\ players_turn
    /\ index <= Len(player)
    /\ is_valid_move(Game, player[index])
    /\ process_card(index)

\* C22: no attack is placed against a defender without cards: the computer
\* holds a card whenever the human's gated Play puts an attack card on the
\* table, and the human holds a card whenever the table shows an open attack
\* of the computer (an opening attack or a follow-up).
C22_DefenderHoldsACard ==
    /\ [](panic = NoPanic /\ LastOpen(table) => player # <<>>)
    /\ [][/\ \A index \in 1 .. MaxKey : HumanAttacks(index) => computer # <<>>
          /\ panic' = NoPanic /\ LastOpen(table') => player' # <<>>]_vars

C22_Witness ==
    /\ panic = NoPanic
    /\ ~players_turn
    /\ Len(table) >= 2 /\ LastOpen(table)
    /\ Len(player) = 1
    /\ deck = <<>>

\* C23: when the computer declines to defend the human's attack, its refill
\* takes nothing from the deck: after taking the table it holds at least
\* HAND_SIZE cards or the deck is empty, so its hand grows by the cards of
\* the table and the attack card only, and every card that leaves the deck
\* goes to the human.
C23_TakerDrawsNothing ==
    [][\A index \in 1 .. MaxKey :
          AttackNotCovered(index) =>
              /\ Len(computer) + TableCount(table) + 1 >= HAND_SIZE \/ deck = <<>>
              /\ Len(computer') = Len(computer) + TableCount(table) + 1
              /\ SeqToSet(computer') =
                    SeqToSet(computer) \cup OnTable(table) \cup {player[index]}
              /\ Len(deck) - Len(deck') = Len(player') - (Len(player) - 1)
              /\ SeqToSet(player') \subseteq SeqToSet(player) \cup SeqToSet(deck)]_vars

C23_Witness ==
    /\ players_turn
    /\ response = Take
    /\ table = <<>>
    /\ deck # <<>>
    /\ Len(computer) = HAND_SIZE + 2
    /\ Len(player) = HAND_SIZE

====
